---------------------------- MODULE Spec2Model ----------------------------
(***************************************************************************)
(* African Plate Drift Tracker (src/mobile_prototype.py).                  *)
(*                                                                         *)
(* The script is a Streamlit page: every interaction reruns the whole      *)
(* script against the session state and the widget values.  Its numeric    *)
(* core (years_between, euler_to_vel, predict_position, the displacement,  *)
(* the 26-sample time series, the bearing) is Python float arithmetic.     *)
(*                                                                         *)
(* Python floats are modelled as binary floating-point numbers m * 2^e     *)
(* with round-to-nearest-even, as IEEE-754 binary64 does, at a reduced     *)
(* significand width (Prec bits instead of 53).  The exponent is not       *)
(* bounded: every value met here lies far inside binary64's exponent       *)
(* range, so overflow and underflow do not occur.  Signed zeros are not    *)
(* distinguished (Python compares 0.0 == -0.0).                            *)
(***************************************************************************)
EXTENDS Integers, Sequences, FiniteSets, TLC

\* Significand width of the modelled floats (binary64 has 53).
Prec == 11

(***************************************************************************)
(* Floating-point arithmetic                                               *)
(*                                                                         *)
(* Intermediate values are handed on as operator parameters, one operator  *)
(* per step of a computation.                                              *)
(***************************************************************************)
Pow2(k) == 2^k

Abs(n) == IF n < 0 THEN -n ELSE n

Sgn(n) == IF n < 0 THEN -1 ELSE 1

\* Number of binary digits of n < 256, plus b.
BitLen8(n, b) ==
    IF n < 16
    THEN (IF n < 4 THEN (IF n < 2 THEN (IF n < 1 THEN b ELSE b + 1) ELSE b + 2)
          ELSE IF n < 8 THEN b + 3 ELSE b + 4)
    ELSE (IF n < 64 THEN (IF n < 32 THEN b + 5 ELSE b + 6)
          ELSE IF n < 128 THEN b + 7 ELSE b + 8)

RECURSIVE BitLen(_)
\* Number of binary digits of n >= 0.
BitLen(n) == IF n < 256 THEN BitLen8(n, 0) ELSE 8 + BitLen(n \div 256)

Zero == [m |-> 0, e |-> 0]

\* sg * q * 2^e, q < 2^Prec or q = 2^Prec (the rounding carried over).
RoundCarry(sg, q, e) ==
    IF q = Pow2(Prec) THEN [m |-> sg * Pow2(Prec - 1), e |-> e + 1]
    ELSE [m |-> sg * q, e |-> e]

\* Round half to even: q the kept digits, r the dropped ones, half their midpoint.
RoundShift(sg, q, r, half, e) ==
    RoundCarry(sg, IF r > half \/ (r = half /\ q % 2 = 1) THEN q + 1 ELSE q, e)

\* M has L binary digits.
RoundBits(M, E, L) ==
    IF L <= Prec
    THEN [m |-> M * Pow2(Prec - L), e |-> E - (Prec - L)]
    ELSE RoundShift(Sgn(M), Abs(M) \div Pow2(L - Prec), Abs(M) % Pow2(L - Prec),
                    Pow2(L - Prec - 1), E + (L - Prec))

\* The float nearest to M * 2^E (ties to even), normalised so that
\* 2^(Prec-1) <= |m| < 2^Prec.
Round(M, E) == IF M = 0 THEN Zero ELSE RoundBits(M, E, BitLen(Abs(M)))

\* sg * (a / den), a scaled up by 2^k to 29 binary digits, with a sticky last digit
LitShift(sg, a, den, k) ==
    Round(sg * (2 * ((a * Pow2(k)) \div den)
                + (IF (a * Pow2(k)) % den = 0 THEN 0 ELSE 1)), 0 - k - 1)

\* A float literal num/den (den > 0, |num| < 2^28), correctly rounded.
Lit(num, den) ==
    IF num = 0 THEN Zero
    ELSE LitShift(Sgn(num), Abs(num), den, 29 - BitLen(Abs(num)))

FNeg(x) == [m |-> 0 - x.m, e |-> x.e]

FAbs(x) == [m |-> Abs(x.m), e |-> x.e]

\* hi + lo where hi.e >= lo.e and neither is zero
FAddOrd(hi, lo) ==
    IF hi.e - lo.e > Prec + 1 THEN hi
    ELSE Round(hi.m * Pow2(hi.e - lo.e) + lo.m, lo.e)

\* x + y
FAdd(x, y) ==
    IF x.m = 0 THEN y
    ELSE IF y.m = 0 THEN x
    ELSE FAddOrd(IF x.e >= y.e THEN x ELSE y, IF x.e >= y.e THEN y ELSE x)

\* x - y
FSub(x, y) == FAdd(x, FNeg(y))

\* x * y
FMul(x, y) == Round(x.m * y.m, x.e + y.e)

\* sg * (n / d) * 2^e with a sticky last digit
FDivQ(sg, n, d, e) ==
    Round(sg * (2 * (n \div d) + (IF n % d = 0 THEN 0 ELSE 1)), e)

\* x / y for y # 0 (Python raises ZeroDivisionError for y = 0).
FDiv(x, y) ==
    IF x.m = 0 THEN Zero
    ELSE FDivQ(Sgn(x.m) * Sgn(y.m), Abs(x.m) * Pow2(Prec + 2), Abs(y.m),
               x.e - y.e - Prec - 3)

\* Comparisons.
FLt(x, y) == FSub(x, y).m < 0

FLe(x, y) == FSub(x, y).m <= 0

RECURSIVE ISqrtIn(_, _, _)
\* Largest r in lo..hi with r * r <= n.
ISqrtIn(n, lo, hi) ==
    IF lo >= hi THEN lo
    ELSE IF ((lo + hi + 1) \div 2) * ((lo + hi + 1) \div 2) <= n
         THEN ISqrtIn(n, (lo + hi + 1) \div 2, hi)
         ELSE ISqrtIn(n, lo, ((lo + hi + 1) \div 2) - 1)

SqrtR(n, r, e) == Round(2 * r + (IF r * r = n THEN 0 ELSE 1), e)

\* sqrt(x.m * 2^k * 2^(x.e - k)) with x.e - k even
SqrtK(x, k) ==
    SqrtR(x.m * Pow2(k), ISqrtIn(x.m * Pow2(k), 0, Pow2(Prec + 2)),
          ((x.e - k) \div 2) - 1)

\* math.sqrt(x), x >= 0, correctly rounded.
math_sqrt(x) ==
    IF x.m = 0 THEN Zero
    ELSE SqrtK(x, IF (x.e - (Prec + 2)) % 2 = 0 THEN Prec + 2 ELSE Prec + 3)

\* x ** 2
FSq(x) == FMul(x, x)

\* x rounded to the nearest integer, for |x| < 2^Prec.
FToInt(x) ==
    IF x.e >= 0 THEN x.m * Pow2(x.e)
    ELSE IF 0 - x.e > Prec + 1 THEN 0
    ELSE Sgn(x.m) * ((Abs(x.m) + Pow2(0 - x.e - 1)) \div Pow2(0 - x.e))

One == Lit(1, 1)

Thousand == Lit(1000, 1)

Million == Lit(1000000, 1)

(***************************************************************************)
(* The math module: radians, degrees, sin, cos, atan2                      *)
(*                                                                         *)
(* sin and cos reduce the argument by multiples of pi/2 (pi/2 split in a   *)
(* short head and a tail, so that the reduced argument keeps its relative  *)
(* accuracy next to a multiple of pi/2) and evaluate a Taylor polynomial   *)
(* on the remainder, as a libm does.  pi/2 is not a float, so the reduced  *)
(* argument of radians(90) is small but not zero: cos(radians(90)) is a    *)
(* tiny non-zero number (6.1e-17 in binary64), never 0.0.                  *)
(***************************************************************************)
\* pi / 180
DEG2RAD == Round(9370165, -29)

\* 180 / pi
RAD2DEG == Round(15019745, -18)

\* 2 / pi
TWO_OVER_PI == Round(10680707, -24)

\* pi / 2 = 25/16 + PIO2_LO
PIO2_LO == Round(8908113, -30)

PIO2 == Round(13176795, -23)

PI == Round(13176795, -22)

\* Taylor coefficients of sin and cos.
S3 == Lit(-1, 6)

S5 == Lit(1, 120)

S7 == Lit(-1, 5040)

C2 == Lit(-1, 2)

C4 == Lit(1, 24)

C6 == Lit(-1, 720)

\* math.radians(x)
math_radians(x) == FMul(x, DEG2RAD)

\* math.degrees(x)
math_degrees(x) == FMul(x, RAD2DEG)

\* The multiple k of pi/2 nearest to x.
TrigK(x) == FToInt(FMul(x, TWO_OVER_PI))

\* x - k * pi/2
TrigR(x, k) == FSub(FSub(x, Round(25 * k, -4)), FMul(Round(k, 0), PIO2_LO))

SinPolyZ(r, z) ==
    FAdd(r, FMul(r, FMul(z, FAdd(S3, FMul(z, FAdd(S5, FMul(z, S7)))))))

\* sin r for |r| <= pi/4
SinPoly(r) == SinPolyZ(r, FMul(r, r))

CosPolyZ(z) == FAdd(One, FMul(z, FAdd(C2, FMul(z, FAdd(C4, FMul(z, C6))))))

\* cos r for |r| <= pi/4
CosPoly(r) == CosPolyZ(FMul(r, r))

\* sin and cos of r + j * pi/2 from s = sin r and c = cos r
SinCosQ(s, c, j) ==
    [sin |-> IF j = 0 THEN s ELSE IF j = 1 THEN c ELSE IF j = 2 THEN FNeg(s) ELSE FNeg(c),
     cos |-> IF j = 0 THEN c ELSE IF j = 1 THEN FNeg(s) ELSE IF j = 2 THEN FNeg(c) ELSE s]

SinCosR(r, j) == SinCosQ(SinPoly(r), CosPoly(r), j)

SinCosK(x, k) == SinCosR(TrigR(x, k), k % 4)

\* (math.sin(x), math.cos(x)), x in radians
SinCos(x) == SinCosK(x, TrigK(x))

\* math.sin(x)
math_sin(x) == SinCos(x).sin

\* math.cos(x)
math_cos(x) == SinCos(x).cos

\* atan(j/4), j = 0..4
AtanTab(j) ==
    IF j = 0 THEN Zero
    ELSE IF j = 1 THEN Round(16440240, -26)
    ELSE IF j = 2 THEN Round(15557432, -25)
    ELSE IF j = 3 THEN Round(10796157, -24)
    ELSE Round(13176795, -24)

A3 == Lit(-1, 3)

A5 == Lit(1, 5)

AtanW(t, u, w) == FAdd(t, FAdd(u, FMul(u, FMul(w, FAdd(A3, FMul(w, A5))))))

AtanU(t, u) == AtanW(t, u, FMul(u, u))

AtanC(z, j, c) == AtanU(AtanTab(j), FDiv(FSub(z, c), FAdd(One, FMul(z, c))))

\* atan z for 0 <= z <= 1: atan(c) + atan((z - c) / (1 + z c)), c = j/4 nearest z
AtanJ(z, j) == AtanC(z, j, Lit(j, 4))

AtanUnit(z) == AtanJ(z, FToInt(FMul(z, Lit(4, 1))))

\* atan(ay/ax) from a = atan(min/max): a itself, or pi/2 - a above the diagonal
AtanFold(a, below) == IF below THEN a ELSE FSub(PIO2, a)

\* atan2(ay, ax) in [0, pi/2] for ay > 0, ax >= 0
AtanFirst(ay, ax) ==
    IF ax.m = 0 THEN PIO2
    ELSE AtanFold(AtanUnit(IF FLe(ay, ax) THEN FDiv(ay, ax) ELSE FDiv(ax, ay)),
                  FLe(ay, ax))

Atan2S(y, b) == IF y.m < 0 THEN FNeg(b) ELSE b

Atan2Q(y, x, a) == Atan2S(y, IF x.m < 0 THEN FSub(PI, a) ELSE a)

\* math.atan2(y, x), in (-pi, pi]
math_atan2(y, x) ==
    IF y.m = 0 THEN (IF x.m < 0 THEN PI ELSE Zero)
    ELSE Atan2Q(y, x, AtanFirst(FAbs(y), FAbs(x)))

(***************************************************************************)
(* Helper functions of the script                                          *)
(***************************************************************************)
\* R = 6371000.0
R == Lit(6371000, 1)

\* 365.25
DaysPerYear == Lit(36525, 100)

\* years_between(d1, d2): d1, d2 are day numbers, (d2 - d1).days / 365.25
years_between(d1, d2) == FDiv(Lit(d2 - d1, 1), DaysPerYear)

\* a[0]*b[0] + a[1]*b[1] + a[2]*b[2] as sum(...) adds it, starting from 0
\* (CPython 3.12 and later compensate the sum, which changes its last bits only)
Dot3(a, b) ==
    FAdd(FAdd(FAdd(Zero, FMul(a[1], b[1])), FMul(a[2], b[2])), FMul(a[3], b[3]))

\* ve, vn = sum(v_m_per_yr[i] * east[i]), sum(v_m_per_yr[i] * north[i]); times 1000
EulerProject(v_m_per_yr, east, north) ==
    [ve |-> FMul(Dot3(v_m_per_yr, east), Thousand),
     vn |-> FMul(Dot3(v_m_per_yr, north), Thousand)]

\* v_m_per_yr = [c * R for c in v]
EulerScale(v, east, north) ==
    EulerProject(<<FMul(v[1], R), FMul(v[2], R), FMul(v[3], R)>>, east, north)

\* v = w x r with an index slipped in the third component (w[2] for w[0]).
EulerCrossSlip(r, w, east, north) ==
    EulerScale(<<FSub(FMul(w[2], r[3]), FMul(w[3], r[2])),
                 FSub(FMul(w[3], r[1]), FMul(w[1], r[3])),
                 FSub(FMul(w[3], r[2]), FMul(w[2], r[1]))>>, east, north)

\* v = w x r
EulerCross(r, w, east, north) ==
    EulerScale(<<FSub(FMul(w[2], r[3]), FMul(w[3], r[2])),
                 FSub(FMul(w[3], r[1]), FMul(w[1], r[3])),
                 FSub(FMul(w[1], r[2]), FMul(w[2], r[1]))>>, east, north)

\* The vectors r, w, east and north from the sines and cosines.
EulerTrig(clat, slat, clon, slon, cplat, splat, cplon, splon, omega_rad) ==
    EulerCross(<<FMul(clat, clon), FMul(clat, slon), slat>>,
               <<FMul(FMul(omega_rad, cplat), cplon),
                 FMul(FMul(omega_rad, cplat), splon),
                 FMul(omega_rad, splat)>>,
               <<FNeg(slon), clon, Zero>>,
               <<FMul(FNeg(slat), clon), FMul(FNeg(slat), slon), clat>>)

\* sc = sines and cosines of lat, lon, plat, plon
EulerSinCos(sc, omega_rad) ==
    EulerTrig(sc[1].cos, sc[1].sin, sc[2].cos, sc[2].sin,
              sc[3].cos, sc[3].sin, sc[4].cos, sc[4].sin, omega_rad)

EulerRad(lat, lon, plat, plon, omega_rad) ==
    EulerSinCos([i \in 1..4 |-> SinCos(<<lat, lon, plat, plon>>[i])], omega_rad)

\* euler_to_vel with the rate of the input's default in place of its argument.
euler_to_vel_fixed_rate(lat_deg, lon_deg, pole_lat_deg, pole_lon_deg, omega_deg_Myr) ==
    EulerRad(math_radians(lat_deg), math_radians(lon_deg),
             math_radians(pole_lat_deg), math_radians(pole_lon_deg),
             FDiv(math_radians(Lit(25, 100)), Million))

\* euler_to_vel(lat_deg, lon_deg, pole_lat_deg, pole_lon_deg, omega_deg_Myr)
euler_to_vel(lat_deg, lon_deg, pole_lat_deg, pole_lon_deg, omega_deg_Myr) ==
    EulerRad(math_radians(lat_deg), math_radians(lon_deg),
             math_radians(pole_lat_deg), math_radians(pole_lon_deg),
             FDiv(math_radians(omega_deg_Myr), Million))

\* What a call of predict_position ends in when the divisor is 0.0.
ZeroDivisionError == [err |-> "ZeroDivisionError"]

\* PredictStep with dlat = (vn + years) / R.
PredictStepPlus(lat, lon, ve, vn, years, den) ==
    IF den.m = 0 THEN ZeroDivisionError
    ELSE [err  |-> "none",
          lat2 |-> FAdd(lat, math_degrees(FDiv(FAdd(vn, years), R))),
          lon2 |-> FAdd(lon, math_degrees(FDiv(FMul(ve, years), den)))]

\* PredictStep with both steps taken over years * years.
PredictStepSquare(lat, lon, ve, vn, years, den) ==
    IF den.m = 0 THEN ZeroDivisionError
    ELSE [err  |-> "none",
          lat2 |-> FAdd(lat, math_degrees(FDiv(FMul(vn, FMul(years, years)), R))),
          lon2 |-> FAdd(lon, math_degrees(FDiv(FMul(ve, FMul(years, years)), den)))]

\* dlat, dlon, lat2, lon2 from ve, vn in m/yr and den = R * cos(radians(lat))
PredictStep(lat, lon, ve, vn, years, den) ==
    IF den.m = 0 THEN ZeroDivisionError
    ELSE [err  |-> "none",
          lat2 |-> FAdd(lat, math_degrees(FDiv(FMul(vn, years), R))),
          lon2 |-> FAdd(lon, math_degrees(FDiv(FMul(ve, years), den)))]

\* predict_position with the steps taken over years + 1.
predict_position_off_by_one(lat, lon, ve_mm_yr, vn_mm_yr, years) ==
    PredictStep(lat, lon, FDiv(ve_mm_yr, Thousand), FDiv(vn_mm_yr, Thousand),
                FAdd(years, One), FMul(R, math_cos(math_radians(lat))))

\* predict_position(lat, lon, ve_mm_yr, vn_mm_yr, years)
predict_position(lat, lon, ve_mm_yr, vn_mm_yr, years) ==
    PredictStep(lat, lon, FDiv(ve_mm_yr, Thousand), FDiv(vn_mm_yr, Thousand), years,
                FMul(R, math_cos(math_radians(lat))))

\* The displacement with a difference in place of each product.
displacement_minus(v_e, v_n, t) ==
    math_sqrt(FAdd(FSq(FSub(v_e, t)), FSq(FSub(v_n, t))))

\* math.sqrt((ve * years)**2 + (vn * years)**2)
displacement(v_e, v_n, t) ==
    math_sqrt(FAdd(FSq(FMul(v_e, t)), FSq(FMul(v_n, t))))

\* np.linspace(start, stop, num, endpoint=False)[i]: step = (stop - start) / num
linspace_open(start, stop, num, i) ==
    FAdd(FMul(Lit(i, 1), FDiv(FSub(stop, start), Lit(num, 1))), start)

\* np.linspace(start, stop, num)[i], i = 0 .. num-1 (num > 1):
\* step = (stop - start) / (num - 1); y = arange(num) * step + start; y[-1] = stop
linspace(start, stop, num, i) ==
    IF i = num - 1 THEN stop
    ELSE FAdd(FMul(Lit(i, 1), FDiv(FSub(stop, start), Lit(num - 1, 1))), start)

\* if bearing < 0: bearing += 360
BearingNorm(b) == IF b.m < 0 THEN FAdd(b, Lit(360, 1)) ELSE b

\* bearing = math.degrees(math.atan2(vn, ve)), normalised
Bearing(v_e, v_n) == BearingNorm(math_degrees(math_atan2(v_n, v_e)))

\* 'NE' if 0 <= bearing < 90 else 'SE' if 90 <= bearing < 180 else ...
Quadrant(b) ==
    IF b.m >= 0 /\ FLt(b, Lit(90, 1)) THEN "NE"
    ELSE IF FLe(Lit(90, 1), b) /\ FLt(b, Lit(180, 1)) THEN "SE"
    ELSE IF FLe(Lit(180, 1), b) /\ FLt(b, Lit(270, 1)) THEN "SW"
    ELSE "NW"

(***************************************************************************)
(* Inputs of the model                                                     *)
(***************************************************************************)
\* Coordinates are entered with four decimals: n stands for n / 10000.
Deg4(n) == Lit(n, 10000)

\* The preset buttons.
Presets ==
    { [name |-> "Cairo",     lat |-> 300444,  lon |-> 312357],
      [name |-> "Cape Town", lat |-> -339249, lon |-> 184241],
      [name |-> "Lagos",     lat |-> 65244,   lon |-> 33792],
      [name |-> "Nairobi",   lat |-> -12921,  lon |-> 368219] }

\* Entries of city_database the search is tried with.
city_database ==
    { [name |-> "Durban", lat |-> -298579, lon |-> 310292] }

\* Values typed into the manual coordinate inputs (min -90/-180, max 90/180),
\* with the default name f"Custom ({custom_lat:.2f}, {custom_lon:.2f})".
CustomInputs ==
    { [name |-> "Custom (0.00, 0.00)",   lat |-> 0,       lon |-> 0],
      [name |-> "Custom (90.00, 0.00)",  lat |-> 900000,  lon |-> 0],
      [name |-> "Custom (-90.00, 31.00)", lat |-> -900000, lon |-> 310000] }

\* cities_data of the comparison chart.
cities_data ==
    << [name |-> "Cairo",     lat |-> 300444,  lon |-> 312357],
       [name |-> "Cape Town", lat |-> -339249, lon |-> 184241],
       [name |-> "Lagos",     lat |-> 65244,   lon |-> 33792],
       [name |-> "Nairobi",   lat |-> -12921,  lon |-> 368219] >>

\* Dates are day numbers counted from 2000-01-01.
DefaultStart == 0

DefaultEnd == 9358

StartDates == {DefaultStart, DefaultEnd}

EndDates == {3653, DefaultEnd}

\* Values typed into the Euler pole inputs (no minimum, no maximum).
DefaultEulerLon == Lit(31, 1)

DefaultEulerLat == Lit(-2, 1)

DefaultOmega == Lit(25, 100)

EulerLons == {DefaultEulerLon, Lit(-60, 1)}

EulerLats == {DefaultEulerLat, Lit(90, 1)}

Omegas == {DefaultOmega, Lit(4000, 1)}

\* Number of samples of the time series.
NumSamples == 26

\* A name that is not bound in the run.
NoVal == [undefined |-> TRUE]

(***************************************************************************)
(* State                                                                   *)
(***************************************************************************)
VARIABLES
    loaded,           \* the page has been opened (the script has run once)
    session_state,    \* st.session_state: selected_lat, selected_lon, selected_name
    mode, start_date, end_date, euler_lon, euler_lat, omega,   \* widget values
    ran,              \* the last run entered the calculation block
    years, ve, vn, lat2, lon2, displacement_mm,
    time_points, positions_lat, positions_lon, displacements,
    comparison_data, bearing,
    intermediate_lats, intermediate_lons,   \* the Movement Trail of the map
    vel_via,          \* what produced ve, vn in the last run
    euler_calls,      \* calls of euler_to_vel made by the last run
    fn                \* the last direct call of a helper function

widgets == <<mode, start_date, end_date, euler_lon, euler_lat, omega>>

results == <<ran, years, ve, vn, lat2, lon2, displacement_mm, time_points,
             positions_lat, positions_lon, displacements, comparison_data,
             bearing, intermediate_lats, intermediate_lons, vel_via, euler_calls>>

vars == <<loaded, session_state, widgets, results, fn>>

\* The session of a page just opened.
EmptySession == [k \in {} |-> NoVal]

\* The three fields with latitude and longitude exchanged.
SelectionSwapped(lat, lon, name) ==
    [selected_lat |-> lon, selected_lon |-> lat, selected_name |-> name]

Selection(lat, lon, name) ==
    [selected_lat |-> lat, selected_lon |-> lon, selected_name |-> name]

\* if 'selected_lat' not in st.session_state: default to Cairo
DefaultToCairo(s) ==
    IF "selected_lat" \notin DOMAIN s
    THEN Selection(Deg4(300444), Deg4(312357), "Cairo")
    ELSE s

\* Where a velocity came from.
Via(v, how) == [ve |-> v.ve, vn |-> v.vn, via |-> how]

\* A dispatch that takes the Euler branch in every mode.
ModeVelocityEuler(m, lat, lon, elat, elon, om) ==
    Via(euler_to_vel(lat, lon, elat, elon, om), "euler_to_vel")

\* Velocity of the mode dispatch: euler_to_vel in euler mode, (20.0, 5.0) otherwise.
ModeVelocity(m, lat, lon, elat, elon, om) ==
    IF m = "euler" THEN Via(euler_to_vel(lat, lon, elat, elon, om), "euler_to_vel")
    ELSE [ve |-> Lit(20, 1), vn |-> Lit(5, 1), via |-> "constant"]

\* A guard that lets an empty span through.
CalcGuardLe(d1, d2) == d1 <= d2

\* The guard of the calculation block.
CalcGuard(d1, d2) == d1 < d2

\* city_disp of one city of the comparison chart, cv its velocity.
ComparisonRow(city, cv, y, selname) ==
    [City     |-> city.name,
     Movement |-> displacement(cv.ve, cv.vn, y),
     Speed    |-> math_sqrt(FAdd(FSq(cv.ve), FSq(cv.vn))),
     Selected |-> (city.name = selname),
     via      |-> cv.via]

Comparison(city, m, elat, elon, om, y, selname) ==
    ComparisonRow(city, ModeVelocity(m, Deg4(city.lat), Deg4(city.lon), elat, elon, om),
                  y, selname)

\* The script from "Default to Cairo" to its end, run on the session s that the
\* button handlers left and on the new widget values.
Rerun(s) ==
    /\ loaded' = TRUE
    /\ session_state' = DefaultToCairo(s)
    /\ fn' = fn
    /\ IF CalcGuard(start_date', end_date')
       THEN /\ ran' = TRUE
            /\ years' = years_between(start_date', end_date')
            /\ \E v \in {ModeVelocity(mode', session_state'.selected_lat,
                                      session_state'.selected_lon,
                                      euler_lat', euler_lon', omega')} :
                   ve' = v.ve /\ vn' = v.vn /\ vel_via' = v.via
            /\ \E p \in {predict_position(session_state'.selected_lat,
                                          session_state'.selected_lon,
                                          ve', vn', years')} :
                   lat2' = p.lat2 /\ lon2' = p.lon2
            /\ displacement_mm' = displacement(ve', vn', years')
            /\ time_points' = [i \in 1..NumSamples |-> linspace(Zero, years', NumSamples, i - 1)]
            /\ \E pt \in {[i \in 1..NumSamples |->
                             predict_position(session_state'.selected_lat,
                                              session_state'.selected_lon,
                                              ve', vn', time_points'[i])]} :
                   /\ positions_lat' = [i \in 1..NumSamples |-> pt[i].lat2]
                   /\ positions_lon' = [i \in 1..NumSamples |-> pt[i].lon2]
            /\ displacements' =
                   [i \in 1..NumSamples |-> displacement(ve', vn', time_points'[i])]
            /\ comparison_data' =
                   [c \in 1..Len(cities_data) |->
                       Comparison(cities_data[c], mode', euler_lat', euler_lon',
                                  omega', years', session_state'.selected_name)]
            /\ intermediate_lats' =
                   [i \in 1..3 |-> linspace(session_state'.selected_lat, lat2', 5, i)]
            /\ intermediate_lons' =
                   [i \in 1..3 |-> linspace(session_state'.selected_lon, lon2', 5, i)]
            /\ bearing' = Bearing(ve', vn')
            /\ euler_calls' =
                   Cardinality({c \in 0..Len(cities_data) :
                       "euler_to_vel" = (IF c = 0 THEN vel_via' ELSE comparison_data'[c].via)})
       ELSE /\ ran' = FALSE
            /\ years' = NoVal /\ ve' = NoVal /\ vn' = NoVal
            /\ lat2' = NoVal /\ lon2' = NoVal /\ displacement_mm' = NoVal
            /\ time_points' = NoVal /\ positions_lat' = NoVal /\ positions_lon' = NoVal
            /\ displacements' = NoVal /\ comparison_data' = NoVal /\ bearing' = NoVal
            /\ intermediate_lats' = NoVal /\ intermediate_lons' = NoVal
            /\ euler_calls' = 0 /\ vel_via' = NoVal

NoCall == [op |-> "none"]

Init ==
    /\ loaded = FALSE
    /\ session_state = EmptySession
    /\ mode = "euler"
    /\ start_date = DefaultStart
    /\ end_date = DefaultEnd
    /\ euler_lon = DefaultEulerLon
    /\ euler_lat = DefaultEulerLat
    /\ omega = DefaultOmega
    /\ ran = FALSE
    /\ years = NoVal /\ ve = NoVal /\ vn = NoVal
    /\ lat2 = NoVal /\ lon2 = NoVal /\ displacement_mm = NoVal
    /\ time_points = NoVal /\ positions_lat = NoVal /\ positions_lon = NoVal
    /\ displacements = NoVal /\ comparison_data = NoVal /\ bearing = NoVal
    /\ intermediate_lats = NoVal /\ intermediate_lons = NoVal
    /\ euler_calls = 0 /\ vel_via = NoVal
    /\ fn = NoCall

(***************************************************************************)
(* Interactions: each one changes a widget or presses a button, and the    *)
(* script runs again from the top.                                         *)
(***************************************************************************)
\* The page is opened: the script runs with every widget at its default.
Load ==
    /\ ~loaded
    /\ UNCHANGED widgets
    /\ Rerun(session_state)

\* The Mode selectbox.  The Euler inputs exist in euler mode only: they are
\* the defaults in station mode and start from their defaults when shown again.
SelectMode(m) ==
    /\ loaded /\ m # mode
    /\ mode' = m
    /\ euler_lon' = DefaultEulerLon /\ euler_lat' = DefaultEulerLat /\ omega' = DefaultOmega
    /\ UNCHANGED <<start_date, end_date>>
    /\ Rerun(session_state)

SetStartDate(d) ==
    /\ loaded /\ d # start_date
    /\ start_date' = d
    /\ UNCHANGED <<mode, end_date, euler_lon, euler_lat, omega>>
    /\ Rerun(session_state)

\* A change of the end date that also empties the session.
SetEndDateClears(d) ==
    /\ loaded /\ d # end_date
    /\ end_date' = d
    /\ UNCHANGED <<mode, start_date, euler_lon, euler_lat, omega>>
    /\ Rerun(EmptySession)

SetEndDate(d) ==
    /\ loaded /\ d # end_date
    /\ end_date' = d
    /\ UNCHANGED <<mode, start_date, euler_lon, euler_lat, omega>>
    /\ Rerun(session_state)

SetEulerLon(x) ==
    /\ loaded /\ mode = "euler" /\ x # euler_lon
    /\ euler_lon' = x
    /\ UNCHANGED <<mode, start_date, end_date, euler_lat, omega>>
    /\ Rerun(session_state)

SetEulerLat(x) ==
    /\ loaded /\ mode = "euler" /\ x # euler_lat
    /\ euler_lat' = x
    /\ UNCHANGED <<mode, start_date, end_date, euler_lon, omega>>
    /\ Rerun(session_state)

SetOmega(x) ==
    /\ loaded /\ mode = "euler" /\ x # omega
    /\ omega' = x
    /\ UNCHANGED <<mode, start_date, end_date, euler_lon, euler_lat>>
    /\ Rerun(session_state)

\* A preset button: writes the three fields, st.rerun().
PressPreset(c) ==
    /\ loaded
    /\ UNCHANGED widgets
    /\ Rerun(Selection(Deg4(c.lat), Deg4(c.lon), c.name))

\* "Use <selected_city>" of the city search.
PressUseCity(c) ==
    /\ loaded
    /\ UNCHANGED widgets
    /\ Rerun(Selection(Deg4(c.lat), Deg4(c.lon), c.name))

\* "Use Custom Location" of the manual coordinates.
PressUseCustom(c) ==
    /\ loaded
    /\ UNCHANGED widgets
    /\ Rerun(Selection(Deg4(c.lat), Deg4(c.lon), c.name))

Next ==
    \/ Load
    \/ \E m \in {"euler", "station"} : SelectMode(m)
    \/ \E d \in StartDates : SetStartDate(d)
    \/ \E d \in EndDates : SetEndDate(d)
    \/ \E x \in EulerLons : SetEulerLon(x)
    \/ \E x \in EulerLats : SetEulerLat(x)
    \/ \E x \in Omegas : SetOmega(x)
    \/ \E c \in Presets : PressPreset(c)
    \/ \E c \in city_database : PressUseCity(c)
    \/ \E c \in CustomInputs : PressUseCustom(c)

Spec == Init /\ [][Next]_vars

(***************************************************************************)
(* The helper functions called directly, on inputs of their whole domain   *)
(* (the script itself only calls them with years > 0).                     *)
(***************************************************************************)
FnLats == {Zero, Deg4(1), Deg4(300444), Deg4(-339249), Lit(60, 1), Lit(90, 1), Lit(-90, 1)}

FnLons == {Zero, Deg4(312357), Lit(-120, 1)}

FnPoleLats == {Lit(-2, 1), Lit(45, 1), Lit(90, 1)}

FnPoleLons == {Lit(31, 1), Lit(-60, 1)}

FnOmegas == {Zero, Lit(25, 100), Lit(-3, 2), Lit(4000, 1)}

\* Velocity components, mm/yr.
FnVels == {Zero, Lit(5, 1), Lit(20, 1), Lit(-20, 1), Lit(300000, 1), Lit(-400000, 1)}

\* Elapsed years.
FnTimes == {Zero, Lit(1, 1), years_between(DefaultStart, DefaultEnd), Lit(-10, 1)}

CallEulerToVel(lat, lon, plat, plon, om) ==
    /\ fn.op = "none"
    /\ fn' = [op |-> "euler_to_vel", lat |-> lat, lon |-> lon, plat |-> plat,
              plon |-> plon, omega |-> om,
              out |-> euler_to_vel(lat, lon, plat, plon, om)]
    /\ UNCHANGED <<loaded, session_state, widgets, results>>

CallPredict(lat, lon, v_e, v_n, t) ==
    /\ fn.op = "none"
    /\ fn' = [op |-> "predict_position", lat |-> lat, lon |-> lon, ve |-> v_e,
              vn |-> v_n, years |-> t,
              out |-> predict_position(lat, lon, v_e, v_n, t)]
    /\ UNCHANGED <<loaded, session_state, widgets, results>>

\* predict_position applied to the result of the last call, with -years.
CallPredictBack ==
    /\ fn.op = "predict_position"
    /\ fn.out.err = "none"
    /\ fn' = [op |-> "round_trip", lat |-> fn.lat, lon |-> fn.lon, ve |-> fn.ve,
              vn |-> fn.vn, years |-> fn.years, out |-> fn.out,
              back |-> predict_position(fn.out.lat2, fn.out.lon2, fn.ve, fn.vn,
                                        FNeg(fn.years))]
    /\ UNCHANGED <<loaded, session_state, widgets, results>>

CallDisplacement(v_e, v_n, t) ==
    /\ fn.op = "none"
    /\ fn' = [op |-> "displacement", ve |-> v_e, vn |-> v_n, years |-> t,
              out |-> displacement(v_e, v_n, t)]
    /\ UNCHANGED <<loaded, session_state, widgets, results>>

CallBearing(v_e, v_n) ==
    /\ fn.op = "none"
    /\ \E b \in {Bearing(v_e, v_n)} :
           fn' = [op |-> "bearing", ve |-> v_e, vn |-> v_n, out |-> b,
                  label |-> Quadrant(b)]
    /\ UNCHANGED <<loaded, session_state, widgets, results>>

FnNext ==
    \/ \E lat \in FnLats, lon \in FnLons, plat \in FnPoleLats, plon \in FnPoleLons,
          om \in FnOmegas : CallEulerToVel(lat, lon, plat, plon, om)
    \/ \E lat \in FnLats, lon \in FnLons, v_e \in FnVels, v_n \in FnVels, t \in FnTimes :
          CallPredict(lat, lon, v_e, v_n, t)
    \/ CallPredictBack
    \/ \E v_e \in FnVels, v_n \in FnVels, t \in FnTimes : CallDisplacement(v_e, v_n, t)
    \/ \E v_e \in FnVels, v_n \in FnVels : CallBearing(v_e, v_n)

FnSpec == Init /\ [][FnNext]_vars

(***************************************************************************)
(* Properties                                                              *)
(***************************************************************************)
\* |a - b| <= tol
Within(a, b, tol) == FLe(FAbs(FSub(a, b)), tol)

\* 2^-k
Frac2(k) == Round(1, 0 - k)

FMax(a, b) == IF FLt(a, b) THEN b ELSE a

IsPole(lat) == FAbs(lat) = Lit(90, 1)

PolarCall ==
    /\ fn.op = "predict_position"
    /\ IsPole(fn.lat)
    /\ fn.ve # Zero
    /\ fn.years # Zero

\* C1: a call of predict_position at latitude +90 or -90 with a non-zero
\* eastward step is a defined failure: it ends in an out-of-domain error, or
\* its result is clamped to the valid range of latitude and longitude.
C1_PolarIsDefinedFailure ==
    PolarCall =>
        \/ fn.out.err # "none"
        \/ /\ FLe(FAbs(fn.out.lat2), Lit(90, 1))
           /\ FLe(FAbs(fn.out.lon2), Lit(180, 1))

\* C3: euler_to_vel with omega_deg_Myr = 0 returns ve = 0 and vn = 0, for
\* every point and every pole.
C3_ZeroRateZeroVelocity ==
    (fn.op = "euler_to_vel" /\ fn.omega = Zero) =>
        (fn.out.ve = Zero /\ fn.out.vn = Zero)

C3_Witness ==
    /\ fn.op = "euler_to_vel"
    /\ fn.omega = Zero
    /\ fn.lat = Deg4(300444)
    /\ fn.plat = Lit(45, 1)
    /\ fn.out.ve = Zero

\* C4: predict_position with years = 0 returns exactly (lat, lon), for every
\* velocity and every latitude, the poles included, and the displacement at
\* elapsed time 0 is 0.
C4_IdentityAtZero ==
    /\ (fn.op = "predict_position" /\ fn.years = Zero) =>
           (fn.out.err = "none" /\ fn.out.lat2 = fn.lat /\ fn.out.lon2 = fn.lon)
    /\ (fn.op = "displacement" /\ fn.years = Zero) => fn.out = Zero

C4_Witness ==
    /\ fn.op = "predict_position"
    /\ fn.years = Zero
    /\ IsPole(fn.lat)
    /\ fn.ve = Lit(300000, 1)
    /\ fn.out.lat2 = fn.lat

\* C7: for a point on the equator and an Euler pole at latitude 90, the
\* northward component is zero up to rounding: |vn| <= 2^-(Prec-3) * |ve|.
C7_EquatorNoNorthward ==
    (fn.op = "euler_to_vel" /\ fn.lat = Zero /\ fn.plat = Lit(90, 1)) =>
        FLe(FAbs(fn.out.vn), FMul(FAbs(fn.out.ve), Frac2(Prec - 3)))

C7_Witness ==
    /\ fn.op = "euler_to_vel"
    /\ fn.lat = Zero
    /\ fn.plat = Lit(90, 1)
    /\ fn.omega = Lit(25, 100)
    /\ FLt(Lit(20, 1), fn.out.ve)

\* The quadrant a velocity with two non-zero components points into.
TrueQuadrant(v_e, v_n) ==
    IF v_n.m > 0 THEN (IF v_e.m > 0 THEN "NE" ELSE "NW")
    ELSE (IF v_e.m > 0 THEN "SE" ELSE "SW")

\* The compass bearing of a velocity along an axis.
Cardinal(v_e, v_n) ==
    IF v_e = Zero THEN (IF v_n.m > 0 THEN Zero ELSE Lit(180, 1))
    ELSE (IF v_e.m > 0 THEN Lit(90, 1) ELSE Lit(270, 1))

\* C10: the bearing is the compass direction in degrees clockwise from north
\* in [0, 360): within one degree of 0 for due north, 90 for due east, 180
\* for due south and 270 for due west, and the quadrant label is the
\* quadrant the velocity points into.
C10_CompassBearing ==
    (fn.op = "bearing" /\ (fn.ve # Zero \/ fn.vn # Zero)) =>
        /\ fn.out.m >= 0
        /\ FLt(fn.out, Lit(360, 1))
        /\ (fn.ve = Zero \/ fn.vn = Zero) =>
               \/ Within(fn.out, Cardinal(fn.ve, fn.vn), One)
               \/ (fn.ve = Zero /\ fn.vn.m > 0 /\ Within(fn.out, Lit(360, 1), One))
        /\ (fn.ve # Zero /\ fn.vn # Zero) => fn.label = TrueQuadrant(fn.ve, fn.vn)

\* A round trip of a point away from the poles over a short time.
RoundTrip ==
    /\ fn.op = "round_trip"
    /\ fn.back.err = "none"
    /\ FLe(FAbs(fn.lat), Lit(60, 1))
    /\ fn.years # Zero

\* Rounding allowance of a coordinate that passed through x and y.
RoundTol(x, y) == FMul(FMax(FAbs(x), FAbs(y)), Frac2(Prec - 2))

\* C5 as stated: predicting forward by t and then by -t from the result
\* restores the latitude exactly, and the longitude up to rounding and an
\* eighth of the longitude step.
C5_LatitudeExact ==
    RoundTrip =>
        /\ fn.back.lat2 = fn.lat
        /\ Within(fn.back.lon2, fn.lon,
                  FAdd(RoundTol(fn.lon, fn.out.lon2),
                       FMul(FAbs(FSub(fn.out.lon2, fn.lon)), Frac2(3))))

\* C5: predicting forward by t and then by -t from the result restores the
\* latitude up to rounding (not always exactly), and the longitude up to
\* rounding and an eighth of the longitude step, the effect of the changed
\* cos(latitude).
C5_RoundTrip ==
    RoundTrip =>
        /\ Within(fn.back.lat2, fn.lat, RoundTol(fn.lat, fn.out.lat2))
        /\ Within(fn.back.lon2, fn.lon,
                  FAdd(RoundTol(fn.lon, fn.out.lon2),
                       FMul(FAbs(FSub(fn.out.lon2, fn.lon)), Frac2(3))))

\* A round trip that moved the point and did not restore its latitude exactly.
C5_Witness ==
    /\ RoundTrip
    /\ fn.out.lat2 # fn.lat
    /\ fn.out.lon2 # fn.lon
    /\ fn.back.lat2 # fn.lat

\* No result of the calculation block is bound.
NoResults ==
    /\ ~ran
    /\ years = NoVal /\ ve = NoVal /\ vn = NoVal
    /\ lat2 = NoVal /\ lon2 = NoVal /\ displacement_mm = NoVal
    /\ time_points = NoVal /\ displacements = NoVal

DegenerateSpan == loaded /\ start_date >= end_date

\* C2 as stated: with start_date >= end_date the run still computes: it binds
\* zero or negative elapsed years and a displacement.
C2_DegenerateSpanComputed ==
    DegenerateSpan =>
        /\ ran
        /\ years # NoVal
        /\ displacement_mm # NoVal

\* C2: with start_date >= end_date the run raises nothing and skips the
\* calculation block, so no years, velocity, position or displacement is
\* produced; the helper functions stay defined for such a span:
\* years_between is zero or negative and, for start_date = end_date,
\* predict_position returns the point unchanged and the displacement is 0.
\* With start_date < end_date the block runs.
C2_DegenerateSpanSkipped ==
    /\ DegenerateSpan =>
           /\ NoResults
           /\ FLe(years_between(start_date, end_date), Zero)
           /\ start_date = end_date =>
                  /\ years_between(start_date, end_date) = Zero
                  /\ predict_position(session_state.selected_lat,
                                      session_state.selected_lon,
                                      Lit(20, 1), Lit(5, 1), Zero)
                       = [err  |-> "none",
                          lat2 |-> session_state.selected_lat,
                          lon2 |-> session_state.selected_lon]
                  /\ displacement(Lit(20, 1), Lit(5, 1), Zero) = Zero
    /\ (loaded /\ start_date < end_date) => ran

C2_Witness ==
    /\ DegenerateSpan
    /\ start_date = end_date
    /\ session_state.selected_name = "Cape Town"
    /\ ~ran

\* Elapsed times the displacement is compared at.
TestTimes == {Zero, One, Lit(10, 1), Lit(51, 2)}

\* C6: for the velocity of a run and 0 <= t1 <= t2 the displacement at t1 is
\* at most the displacement at t2, and the displacements of the 26 samples
\* of the trajectory never decrease.
C6_DisplacementMonotone ==
    ran =>
        /\ \A t1, t2 \in TestTimes \cup {years} :
               FLe(t1, t2) => FLe(displacement(ve, vn, t1), displacement(ve, vn, t2))
        /\ \A i \in 1..(NumSamples - 1) : FLe(displacements[i], displacements[i + 1])

C6_Witness ==
    /\ ran
    /\ mode = "euler"
    /\ FLt(displacements[1], displacements[2])
    /\ FLt(displacements[2], displacements[NumSamples])

\* C8: a run computes 26 time points, strictly increasing and evenly spaced
\* up to rounding, the first 0 and the last the elapsed years; the first
\* sample is the selected point with displacement 0, and the last sample is
\* the single-shot lat2, lon2 and displacement_mm.
C8_TrajectorySampling ==
    ran =>
        /\ DOMAIN time_points = 1..26
        /\ DOMAIN positions_lat = 1..26
        /\ DOMAIN positions_lon = 1..26
        /\ DOMAIN displacements = 1..26
        /\ time_points[1] = Zero
        /\ time_points[26] = years
        /\ \A i \in 1..25 :
               /\ FLt(time_points[i], time_points[i + 1])
               /\ Within(FSub(time_points[i + 1], time_points[i]),
                         FDiv(years, Lit(25, 1)), RoundTol(years, years))
        /\ positions_lat[1] = session_state.selected_lat
        /\ positions_lon[1] = session_state.selected_lon
        /\ displacements[1] = Zero
        /\ positions_lat[26] = lat2
        /\ positions_lon[26] = lon2
        /\ displacements[26] = displacement_mm

C8_Witness ==
    /\ ran
    /\ omega = Lit(4000, 1)
    /\ session_state.selected_name = "Cape Town"
    /\ positions_lat[26] # positions_lat[1]
    /\ positions_lon[26] # positions_lon[1]
    /\ positions_lat[26] = lat2

\* C9: in station mode a run never calls euler_to_vel; ve, vn are exactly
\* 20.0, 5.0, and the velocity and the displacement are those of the dates
\* alone, whatever the selected point and the Euler pole.
C9_StationBypassesEuler ==
    (ran /\ mode = "station") =>
        /\ ve = Lit(20, 1)
        /\ vn = Lit(5, 1)
        /\ vel_via = "constant"
        /\ euler_calls = 0
        /\ displacement_mm =
               displacement(Lit(20, 1), Lit(5, 1), years_between(start_date, end_date))
        /\ \A c \in DOMAIN comparison_data :
               comparison_data[c].Movement = displacement_mm

C9_Witness ==
    /\ ran
    /\ mode = "station"
    /\ session_state.selected_name = "Durban"
    /\ end_date # DefaultEnd
    /\ ve = Lit(20, 1)
    /\ euler_calls = 0

\* Allowance for a coordinate that started at a and whose whole step led to
\* b: the rounding of the coordinate and a few units in the last place of
\* the step.
StepTol(a, b) == FAdd(RoundTol(a, b), FMul(FAbs(FSub(b, a)), Frac2(Prec - 4)))

\* The offset from a is the fraction t / years of the whole step from a to b.
Proportional(x, a, b, t) ==
    Within(FSub(x, a), FMul(FDiv(t, years), FSub(b, a)), StepTol(a, b))

\* predict_position from the selected point at elapsed i * years / 4
TrailPoint(i) ==
    predict_position(session_state.selected_lat, session_state.selected_lon,
                     ve, vn, FDiv(FMul(Lit(i, 1), years), Lit(4, 1)))

\* C11: every trajectory sample is predict_position from the selected point
\* at its time point (the cosine is that of the selected latitude), its
\* latitude and longitude offsets from the start are proportional to the
\* elapsed time up to rounding, and the three points of the map trail
\* coincide up to rounding with predict_position at i * years / 4.
C11_SingleStep ==
    ran =>
        /\ \A i \in 1..NumSamples :
               /\ positions_lat[i] =
                      predict_position(session_state.selected_lat,
                                       session_state.selected_lon,
                                       ve, vn, time_points[i]).lat2
               /\ Proportional(positions_lat[i], session_state.selected_lat,
                               lat2, time_points[i])
               /\ Proportional(positions_lon[i], session_state.selected_lon,
                               lon2, time_points[i])
        /\ \A i \in 1..3 :
               /\ Within(intermediate_lats[i], TrailPoint(i).lat2,
                         StepTol(session_state.selected_lat, lat2))
               /\ Within(intermediate_lons[i], TrailPoint(i).lon2,
                         StepTol(session_state.selected_lon, lon2))

\* A run from latitude 0, longitude 0 that moved the point both ways, with
\* the trail strictly between the start and the end.
C11_Witness ==
    /\ ran
    /\ session_state.selected_name = "Custom (0.00, 0.00)"
    /\ lat2 # Zero /\ lon2 # Zero
    /\ intermediate_lats[2] # Zero /\ intermediate_lats[2] # lat2
    /\ positions_lon[13] # Zero /\ positions_lon[13] # lon2

\* What the selection buttons can write: the three fields of one preset,
\* one city of the database or one custom location.
ButtonSelections ==
    { [selected_lat |-> Deg4(c.lat), selected_lon |-> Deg4(c.lon),
       selected_name |-> c.name] : c \in Presets \cup city_database \cup CustomInputs }

\* C12: once the page is open, a run in which mode, a date or an Euler
\* parameter changes leaves selected_lat, selected_lon and selected_name as
\* they were, and a run that changes them is one in which no widget value
\* changes and a selection button has written its three values; the
\* calculation block never writes them.
C12_SelectionFrame ==
    [][ loaded =>
          /\ (widgets' # widgets) => (session_state' = session_state)
          /\ (session_state' # session_state) =>
                 /\ widgets' = widgets
                 /\ session_state' \in ButtonSelections ]_vars

\* A selection made with a button that is still there after the mode, the
\* end date and the Euler rate were changed or touched.
C12_Witness ==
    /\ loaded /\ ran
    /\ session_state.selected_name = "Lagos"
    /\ end_date # DefaultEnd
    /\ omega # DefaultOmega

\* The selection a session holds when nothing was ever selected.
CairoDefault ==
    [selected_lat |-> Lit(300444, 10000), selected_lon |-> Lit(312357, 10000),
     selected_name |-> "Cairo"]

\* C13: whenever the calculation block runs, selected_lat, selected_lon and
\* selected_name are all defined, they are the three values one selection
\* button wrote together or the Cairo default, the latitude is in
\* [-90, 90] and the longitude in [-180, 180].
C13_SelectionDefined ==
    ran =>
        /\ DOMAIN session_state = {"selected_lat", "selected_lon", "selected_name"}
        /\ session_state \in ButtonSelections \cup {CairoDefault}
        /\ FLe(FAbs(session_state.selected_lat), Lit(90, 1))
        /\ FLe(FAbs(session_state.selected_lon), Lit(180, 1))

\* The calculation block run at the pole lat = 90 chosen with the manual
\* coordinates.
C13_Witness ==
    /\ ran
    /\ session_state.selected_name = "Custom (90.00, 0.00)"
    /\ session_state.selected_lat = Lit(90, 1)
    /\ positions_lat[1] = Lit(90, 1)

\* The calculation block run at the pole lat = -90.
SouthPoleRun ==
    /\ ran
    /\ session_state.selected_lat = Lit(-90, 1)

=============================================================================
